---------------------------- MODULE Spec2Model ----------------------------
(***************************************************************************)
(* Connectivity API: the probe core (utils.py) and the HTTP handlers       *)
(* (main.py).                                                              *)
(*                                                                         *)
(* Text is modelled as a sequence of one-character strings, so that the    *)
(* parsers work on characters as the code does.  A Python float is an      *)
(* exact reduced fraction [num, den]; None is the value None.              *)
(***************************************************************************)
EXTENDS Integers, Sequences, FiniteSets, TLC

VARIABLES
    call,       \* SpecCore: the library call under way (function and arguments)
    ret,        \* SpecCore: what the call returned, or the exception it raised
    pc,         \* SpecCore: "call" before the function ran, "done" after
    requests,   \* Spec: per request id, the HTTP request and its response
    futures,    \* Spec: per request id, the executor futures of its probes
    loop        \* Spec: "free", or the request whose handler blocks the event loop

vars == <<call, ret, pc, requests, futures, loop>>
coreVars == <<call, ret, pc>>
apiVars == <<requests, futures, loop>>

None == <<"None">>

-----------------------------------------------------------------------------
(* Characters and numbers                                                  *)

DigitChars == <<"0", "1", "2", "3", "4", "5", "6", "7", "8", "9">>
LowerChars == <<"a", "b", "c", "d", "e", "f", "g", "h", "i", "j", "k", "l", "m",
                "n", "o", "p", "q", "r", "s", "t", "u", "v", "w", "x", "y", "z">>
UpperChars == <<"A", "B", "C", "D", "E", "F", "G", "H", "I", "J", "K", "L", "M",
                "N", "O", "P", "Q", "R", "S", "T", "U", "V", "W", "X", "Y", "Z">>

Range(s) == {s[i] : i \in 1..Len(s)}
IsDigit(c) == c \in Range(DigitChars)
IsAlpha(c) == c \in Range(LowerChars) \cup Range(UpperChars)
IsSpace(c) == c \in {" ", "\t", "\n", "\r", "\f"}
IndexIn(s, c) == CHOOSE i \in 1..Len(s) : s[i] = c

\* the value of a digit in base 16 (10 and 8 use the same digits), -1 if none
DigitVal(c) ==
    IF IsDigit(c) THEN IndexIn(DigitChars, c) - 1
    ELSE IF c \in {LowerChars[i] : i \in 1..6} THEN IndexIn(LowerChars, c) + 9
    ELSE IF c \in {UpperChars[i] : i \in 1..6} THEN IndexIn(UpperChars, c) + 9
    ELSE -1

RECURSIVE NumVal(_, _)
NumVal(s, base) ==
    IF s = <<>> THEN 0
    ELSE NumVal(SubSeq(s, 1, Len(s) - 1), base) * base + DigitVal(s[Len(s)])

AllDigitsIn(s, base) ==
    \A i \in 1..Len(s) : DigitVal(s[i]) >= 0 /\ DigitVal(s[i]) < base

RECURSIVE Pow(_, _)
Pow(b, n) == IF n = 0 THEN 1 ELSE b * Pow(b, n - 1)

RECURSIVE Gcd(_, _)
Gcd(a, b) == IF b = 0 THEN a ELSE Gcd(b, a % b)

Float(n, d) == LET g == Gcd(IF n < 0 THEN -n ELSE n, d)
               IN  [num |-> n \div g, den |-> d \div g]
Zero == Float(0, 1)

\* Python's int(x) of the quotient n/d: truncation toward zero
Trunc(n, d) == IF n >= 0 THEN n \div d ELSE -((-n) \div d)

-----------------------------------------------------------------------------
(* utils.py: is_valid_host                                                 *)

\* str.split(sep) for a one-character separator: the parts between separators
RECURSIVE SplitOn(_, _)
SplitOn(s, sep) ==
    IF \A i \in 1..Len(s) : s[i] # sep THEN <<s>>
    ELSE LET i == CHOOSE k \in 1..Len(s) :
                      s[k] = sep /\ \A j \in 1..(k - 1) : s[j] # sep
         IN  <<SubSeq(s, 1, i - 1)>> \o SplitOn(SubSeq(s, i + 1, Len(s)), sep)

\* strtoul(part, base 0) consuming the whole part: 0x.. is hexadecimal, 0.. octal
PartOk(p) ==
    /\ p # <<>>
    /\ IsDigit(p[1])
    /\ IF Len(p) >= 2 /\ p[1] = "0" /\ p[2] \in {"x", "X"}
       THEN Len(p) >= 3 /\ AllDigitsIn(SubSeq(p, 3, Len(p)), 16)
       ELSE IF p[1] = "0" THEN AllDigitsIn(p, 8)
       ELSE AllDigitsIn(p, 10)

PartVal(p) ==
    IF Len(p) >= 2 /\ p[1] = "0" /\ p[2] \in {"x", "X"}
    THEN NumVal(SubSeq(p, 3, Len(p)), 16)
    ELSE IF p[1] = "0" THEN NumVal(p, 8)
    ELSE NumVal(p, 10)

\* the largest last part after 1, 2, 3 dots; with no dot it is 0xffffffff, above
\* every number a text of the lengths modelled here denotes
AtonMax == <<16777215, 65535, 255>>

\* socket.inet_aton(host) succeeds: one to four numbers separated by dots, the
\* last one filling the remaining bytes; text after the first white space is
\* ignored
inet_aton_ok(host) ==
    LET cut == IF \E i \in 1..Len(host) : IsSpace(host[i])
               THEN (CHOOSE i \in 1..Len(host) :
                        IsSpace(host[i]) /\ \A j \in 1..(i - 1) : ~IsSpace(host[j])) - 1
               ELSE Len(host)
        parts == SplitOn(SubSeq(host, 1, cut), ".")
        n == Len(parts)
    IN  /\ n <= 4
        /\ \A i \in 1..n : PartOk(parts[i])
        /\ \A i \in 1..(n - 1) : PartVal(parts[i]) <= 255
        /\ n > 1 => PartVal(parts[n]) <= AtonMax[n - 1]

\* re.match(r'^[a-zA-Z0-9.-]+\.[a-zA-Z]{2,}$', host); $ also matches before a
\* final newline
DomainBody(s) ==
    \E i \in 2..(Len(s) - 2) :
        /\ s[i] = "."
        /\ \A j \in 1..(i - 1) : IsAlpha(s[j]) \/ IsDigit(s[j]) \/ s[j] \in {".", "-"}
        /\ \A j \in (i + 1)..Len(s) : IsAlpha(s[j])

DomainReMatch(host) ==
    \/ DomainBody(host)
    \/ /\ host # <<>>
       /\ host[Len(host)] = "\n"
       /\ DomainBody(SubSeq(host, 1, Len(host) - 1))

\* embedded NUL: inet_aton raises ValueError, which `except socket.error` lets through
is_valid_host(host) ==
    IF "\\0" \in Range(host) THEN [raised |-> TRUE, value |-> FALSE]
    ELSE IF inet_aton_ok(host) THEN [raised |-> FALSE, value |-> TRUE]
    ELSE [raised |-> FALSE, value |-> DomainReMatch(host)]

-----------------------------------------------------------------------------
(* utils.py: ping and its two output parsers                               *)
(*                                                                         *)
(* What subprocess.run did is a record [kind, rc, output]: kind "oserror"  *)
(* (the command is missing or cannot be spawned), "timeout" (the wall      *)
(* clock ceiling passed) or "exit" with the return code and stdout.  The   *)
(* stdout of ping is a sequence of segments, each the text one of the      *)
(* regular expressions matches (with the groups it captures) or other      *)
(* text: [seg, g].  The timestamp field of an outcome is left out.         *)

Return(v) == [raised |-> FALSE, value |-> v]
Raise(e) == [raised |-> TRUE, value |-> e]

\* float(s): an optional sign, digits with at most one dot, at least one digit
PyFloat(s) ==
    IF s = None THEN Raise("TypeError")
    ELSE LET signed == s # <<>> /\ s[1] \in {"-", "+"}
             body == IF signed THEN SubSeq(s, 2, Len(s)) ELSE s
             dots == {i \in 1..Len(body) : body[i] = "."}
             digits == SelectSeq(body, IsDigit)
             frac == IF dots = {} THEN 0 ELSE Len(body) - (CHOOSE i \in dots : TRUE)
             n == NumVal(digits, 10)
         IN  IF /\ \A i \in 1..Len(body) : IsDigit(body[i]) \/ body[i] = "."
                /\ Cardinality(dots) <= 1
                /\ digits # <<>>
             THEN Return(Float(IF signed /\ s[1] = "-" THEN -n ELSE n, Pow(10, frac)))
             ELSE Raise("ValueError")

\* int(s): an optional sign and at least one digit
PyInt(s) ==
    LET signed == s # <<>> /\ s[1] \in {"-", "+"}
        body == IF signed THEN SubSeq(s, 2, Len(s)) ELSE s
    IN  IF body # <<>> /\ \A i \in 1..Len(body) : IsDigit(body[i])
        THEN Return(IF signed /\ s[1] = "-" THEN -NumVal(body, 10) ELSE NumVal(body, 10))
        ELSE Raise("ValueError")

\* pattern.search(output): the groups of the leftmost segment the pattern matches
Search(output, kinds) ==
    LET hits == {i \in 1..Len(output) : output[i].seg \in kinds}
    IN  IF hits = {} THEN [found |-> FALSE, seg |-> "", g |-> <<>>]
        ELSE LET i == CHOOSE k \in hits : \A j \in hits : k <= j
             IN  [found |-> TRUE, seg |-> output[i].seg, g |-> output[i].g]

\* r"min/avg/max.*= ([\d.]+)/([\d.]+)/([\d.]+)"
PING_RE_LINUX(output) == Search(output, {"rtt_linux"})

\* r"Minimum = (\d+)ms, Maximum = (\d+)ms, Average = (\d+)ms"
PING_RE_WINDOWS(output) == Search(output, {"rtt_windows"})

\* r"(\d+)% packet loss|(\d+)% perdidos": group 1 is the English alternative's
\* number, group 2 the Spanish one's; the group of the other alternative is None
LOSS_RE(output) ==
    LET m == Search(output, {"loss_en", "loss_es"})
    IN  [found |-> m.found,
         g |-> IF ~m.found THEN <<>>
               ELSE IF m.seg = "loss_en" THEN <<m.g[1], None>>
               ELSE <<None, m.g[1]>>]

PingOutcome(host, count, received, loss, min, avg, max) ==
    [host |-> host, packets_transmitted |-> count, packets_received |-> received,
     packet_loss |-> loss, min_ms |-> min, avg_ms |-> avg, max_ms |-> max]

FullLoss(host, count) == PingOutcome(host, count, 0, Float(100, 1), Zero, Zero, Zero)

\* count - int(count * loss / 100)
Received(count, loss) == count - Trunc(count * loss.num, loss.den * 100)

\* the try block of _parse_ping_linux
ParsePingLinuxTry(output, host, count) ==
    LET tm == PING_RE_LINUX(output)
        f1 == IF tm.found THEN PyFloat(tm.g[1]) ELSE Return(Zero)
        f2 == IF tm.found THEN PyFloat(tm.g[2]) ELSE Return(Zero)
        f3 == IF tm.found THEN PyFloat(tm.g[3]) ELSE Return(Zero)
        lm == LOSS_RE(output)
        loss == IF lm.found THEN PyFloat(lm.g[1]) ELSE Return(Zero)
    IN  IF f1.raised THEN f1
        ELSE IF f2.raised THEN f2
        ELSE IF f3.raised THEN f3
        ELSE IF loss.raised THEN loss
        ELSE Return(PingOutcome(host, count, Received(count, loss.value), loss.value,
                                f1.value, f2.value, f3.value))

\* python: a or b
PyOr(a, b) == IF a = None \/ a = <<>> THEN b ELSE a

\* the slip C10 rules out: the groups unpacked in the Unix order min, avg, max
WindowsRolesSwapped(g) == [min |-> g[1], avg |-> g[2], max |-> g[3]]

\* min_ms, max_ms, avg_ms = map(float, time_match.groups())
WindowsRoles(g) == [min |-> g[1], max |-> g[2], avg |-> g[3]]

\* the try block of _parse_ping_windows
ParsePingWindowsTry(output, host, count) ==
    LET tm == PING_RE_WINDOWS(output)
        r == IF tm.found
             THEN WindowsRoles(<<PyFloat(tm.g[1]), PyFloat(tm.g[2]), PyFloat(tm.g[3])>>)
             ELSE [min |-> Return(Zero), max |-> Return(Zero), avg |-> Return(Zero)]
        lm == LOSS_RE(output)
        loss == IF lm.found THEN PyFloat(PyOr(lm.g[1], lm.g[2])) ELSE Return(Zero)
    IN  IF r.min.raised THEN r.min
        ELSE IF r.max.raised THEN r.max
        ELSE IF r.avg.raised THEN r.avg
        ELSE IF loss.raised THEN loss
        ELSE Return(PingOutcome(host, count, Received(count, loss.value), loss.value,
                                r.min.value, r.avg.value, r.max.value))

\* try: ... except Exception: the full-loss outcome
ExceptException(try, host, count) ==
    IF try.raised THEN FullLoss(host, count) ELSE try.value

_parse_ping_linux(output, host, count) ==
    ExceptException(ParsePingLinuxTry(output, host, count), host, count)

_parse_ping_windows(output, host, count) ==
    ExceptException(ParsePingWindowsTry(output, host, count), host, count)

\* the slip C4 rules out: the return code is not looked at
pingIgnoringReturnCode(system, host, count, ev) ==
    IF ev.kind = "oserror" THEN Raise("OSError")
    ELSE IF ev.kind = "timeout" THEN Return(FullLoss(host, count))
    ELSE IF system = "windows" THEN Return(_parse_ping_windows(ev.output, host, count))
    ELSE Return(_parse_ping_linux(ev.output, host, count))

\* except subprocess.TimeoutExpired is the only handler around subprocess.run
ping(system, host, count, ev) ==
    IF ev.kind = "oserror" THEN Raise("OSError")
    ELSE IF ev.kind = "timeout" THEN Return(FullLoss(host, count))
    ELSE IF ev.rc # 0 THEN Return(FullLoss(host, count))
    ELSE IF system = "windows" THEN Return(_parse_ping_windows(ev.output, host, count))
    ELSE Return(_parse_ping_linux(ev.output, host, count))

-----------------------------------------------------------------------------
(* utils.py: traceroute (the Unix-like branch) and its output parser       *)
(* Its stdout is text, a sequence of characters.                           *)

\* str.splitlines() for "\n" line ends: no empty last line
RECURSIVE splitlines(_)
splitlines(s) ==
    IF s = <<>> THEN <<>>
    ELSE IF \A i \in 1..Len(s) : s[i] # "\n" THEN <<s>>
    ELSE LET i == CHOOSE k \in 1..Len(s) :
                      s[k] = "\n" /\ \A j \in 1..(k - 1) : s[j] # "\n"
         IN  <<SubSeq(s, 1, i - 1)>> \o splitlines(SubSeq(s, i + 1, Len(s)))

\* str.split(): the maximal runs of characters that are not white space
RECURSIVE split(_)
split(s) ==
    IF s = <<>> THEN <<>>
    ELSE IF IsSpace(s[1]) THEN split(Tail(s))
    ELSE LET stops == {k \in 1..Len(s) : IsSpace(s[k])}
             e == IF stops = {} THEN Len(s) + 1
                  ELSE CHOOSE k \in stops : \A j \in stops : k <= j
         IN  <<SubSeq(s, 1, e - 1)>> \o split(SubSeq(s, e, Len(s)))

\* rtt_ms, an Optional[float], is a sequence of at most one float
TraceHop(hop, host, rtt) == [hop |-> hop, host |-> host, rtt_ms |-> rtt]

\* one pass of the loop body: the hops after this line
ParseTraceLine(hops, line) ==
    LET parts == split(line)
        hop_no == PyInt(parts[1])
        rtt == PyFloat(parts[3])
    IN  IF parts = <<>> THEN hops
        ELSE IF Len(parts) < 2 THEN hops
        ELSE IF hop_no.raised THEN hops
        ELSE IF parts[2] = <<"*">>
             THEN Append(hops, TraceHop(hop_no.value, <<"t", "i", "m", "e", "o", "u", "t">>, <<>>))
        ELSE IF Len(parts) > 2 /\ rtt.raised THEN hops
        ELSE Append(hops, TraceHop(hop_no.value, parts[2],
                                   IF Len(parts) > 2 THEN <<rtt.value>> ELSE <<>>))

\* the slip C7 rules out: the first line that raises ValueError ends the loop
RECURSIVE ParseTraceLinesBreaking(_, _)
ParseTraceLinesBreaking(hops, lines) ==
    IF lines = <<>> THEN hops
    ELSE LET parts == split(Head(lines))
             bad == /\ Len(parts) >= 2
                    /\ \/ PyInt(parts[1]).raised
                       \/ parts[2] # <<"*">> /\ Len(parts) > 2 /\ PyFloat(parts[3]).raised
         IN  IF bad THEN hops
             ELSE ParseTraceLinesBreaking(ParseTraceLine(hops, Head(lines)), Tail(lines))

RECURSIVE ParseTraceLines(_, _)
ParseTraceLines(hops, lines) ==
    IF lines = <<>> THEN hops
    ELSE ParseTraceLines(ParseTraceLine(hops, Head(lines)), Tail(lines))

\* for line in lines[1:]
_parse_traceroute_linux(output) ==
    LET lines == splitlines(output)
    IN  ParseTraceLines(<<>>, IF lines = <<>> THEN <<>> ELSE Tail(lines))

\* the return code is not looked at
traceroute(host, max_hops, ev) ==
    IF ev.kind = "oserror" THEN Raise("OSError")
    ELSE IF ev.kind = "timeout" THEN Return(<<>>)
    ELSE Return(_parse_traceroute_linux(ev.output))

-----------------------------------------------------------------------------
(* The library calls: one call of is_valid_host, ping or traceroute with   *)
(* arguments and a subprocess behaviour drawn from the sets below.         *)

MaxHostLen == 6
MaxSegs == 2
MaxTraceLines == 2
MaxCount == 4
CountBelow == 1

HostAlphabet == {"2", "9", ".", "a"}

SampleHosts ==
    {<<"8", ".", "8", ".", "8", ".", "8">>, <<"9", "9", "9", ".", "1", ".", "1", ".", "1">>, <<"n", "o", "t", "_", "a", "_", "d", "o", "m", "a", "i", "n">>, <<"e", "x", "a", "m", "p", "l", "e", ".", "c", "o", "m">>, <<"1", "2", "7", ".", "1">>,
     <<":", ":", "1">>, <<"l", "o", "c", "a", "l", "h", "o", "s", "t">>, <<"0", "x", "7", "f", ".", "1">>, <<"2", "5", "6", ".", "1", ".", "1", ".", "1">>, <<"1", ".", "2", ".", "3", ".", "4", ".", "5">>,
     <<"8", ".", "8", ".", "8", ".", "8", " ", "x">>, <<"e", "x", "a", "m", "p", "l", "e", ".", "c", "o", "m", "\n">>, <<"8", "\\0">>}

HostInputs == SampleHosts \cup UNION {[1..k -> HostAlphabet] : k \in 0..MaxHostLen}

NoEvent == [kind |-> "none", rc |-> 0, output |-> <<>>]

Seg(kind, g) == [seg |-> kind, g |-> g]

LossNumbers == {<<"0">>, <<"2", "5">>, <<"1", "0", "0">>}

PingSegments ==
    {Seg("text", <<>>),
     Seg("rtt_linux", <<<<"1", ".", "5">>, <<"2", ".", "2", "5">>, <<"3">>>>),
     Seg("rtt_linux", <<<<"1", ".", "5">>, <<"2", ".", "2", ".", "5">>, <<"3">>>>),
     Seg("rtt_windows", <<<<"1">>, <<"3">>, <<"2">>>>)}
    \cup {Seg("loss_en", <<n>>) : n \in LossNumbers}
    \cup {Seg("loss_es", <<n>>) : n \in LossNumbers}

PingOutputs == UNION {[1..k -> PingSegments] : k \in 0..MaxSegs}

PingEvents ==
    {[kind |-> "oserror", rc |-> 0, output |-> <<>>],
     [kind |-> "timeout", rc |-> 0, output |-> <<>>]}
    \cup {[kind |-> "exit", rc |-> rc, output |-> o] : rc \in {0, 1}, o \in PingOutputs}

CoreHosts == {<<"8", ".", "8", ".", "8", ".", "8">>}

PingCalls ==
    {[fn |-> "ping", system |-> sys, host |-> h, count |-> c, ev |-> ev] :
        sys \in {"linux", "windows"}, h \in CoreHosts,
        c \in (0 - CountBelow)..MaxCount, ev \in PingEvents}

TraceHeader == <<"t", "r", "a", "c", "e", "r", "o", "u", "t", "e", " ", "t", "o", " ", "8", ".", "8", ".", "8", ".", "8", " ", "(", "8", ".", "8", ".", "8", ".", "8", ")", ",", " ", "3", "0", " ", "h", "o", "p", "s", " ", "m", "a", "x", ",", " ", "6", "0", " ", "b", "y", "t", "e", " ", "p", "a", "c", "k", "e", "t", "s">>

TraceLines ==
    {<<" ", "1", " ", " ", "1", "0", ".", "0", ".", "0", ".", "1", " ", " ", "1", ".", "5", " ", "m", "s", " ", " ", "1", ".", "2", " ", "m", "s">>, <<"3", " ", "*", " ">>, <<"5", " ", "1", "9", "2", ".", "0", ".", "2", ".", "1", " ", "2", "3", ".", "4", " ", "m", "s">>,
     <<" ", "2", " ", " ", "*", " ", "*", " ", "*">>, <<>>, <<" ", " ", " ">>, <<"7">>, <<"x", " ", "1", "0", ".", "0", ".", "0", ".", "1", " ", "1", ".", "0", " ", "m", "s">>, <<"4", " ", "1", "0", ".", "0", ".", "0", ".", "9">>,
     <<"6", " ", "1", "0", ".", "0", ".", "0", ".", "2", " ", "*", " ", "2", ".", "0", " ", "m", "s">>}

RECURSIVE JoinLines(_)
JoinLines(lines) ==
    IF lines = <<>> THEN <<>>
    ELSE Head(lines) \o <<"\n">> \o JoinLines(Tail(lines))

TraceOutputs ==
    {<<>>} \cup
    {JoinLines(<<first>> \o rest) :
        first \in {TraceHeader, <<" ", "1", " ", " ", "1", "0", ".", "0", ".", "0", ".", "1", " ", " ", "1", ".", "5", " ", "m", "s", " ", " ", "1", ".", "2", " ", "m", "s">>},
        rest \in UNION {[1..k -> TraceLines] : k \in 0..MaxTraceLines}}

TraceEvents ==
    {[kind |-> "oserror", rc |-> 0, output |-> <<>>],
     [kind |-> "timeout", rc |-> 0, output |-> <<>>]}
    \cup {[kind |-> "exit", rc |-> rc, output |-> o] : rc \in {0, 1}, o \in TraceOutputs}

TraceCalls ==
    {[fn |-> "traceroute", system |-> "linux", host |-> h, count |-> 30, ev |-> ev] :
        h \in CoreHosts, ev \in TraceEvents}

HostCalls ==
    {[fn |-> "is_valid_host", system |-> "", host |-> h, count |-> 0, ev |-> NoEvent] :
        h \in HostInputs}

NoRequests == <<>>

CoreInit ==
    /\ \/ call \in HostCalls
       \/ call \in PingCalls
       \/ call \in TraceCalls
    /\ ret = Return(FALSE)
    /\ pc = "call"
    /\ requests = NoRequests
    /\ futures = NoRequests
    /\ loop = "free"

CallIsValidHost ==
    /\ pc = "call"
    /\ call.fn = "is_valid_host"
    /\ ret' = is_valid_host(call.host)
    /\ pc' = "done"
    /\ UNCHANGED <<call, requests, futures, loop>>

CallPing ==
    /\ pc = "call"
    /\ call.fn = "ping"
    /\ ret' = ping(call.system, call.host, call.count, call.ev)
    /\ pc' = "done"
    /\ UNCHANGED <<call, requests, futures, loop>>

CallTraceroute ==
    /\ pc = "call"
    /\ call.fn = "traceroute"
    /\ ret' = traceroute(call.host, call.count, call.ev)
    /\ pc' = "done"
    /\ UNCHANGED <<call, requests, futures, loop>>

CoreNext == CallIsValidHost \/ CallPing \/ CallTraceroute

SpecCore == CoreInit /\ [][CoreNext]_vars

-----------------------------------------------------------------------------
(* Claims about the library calls, checked under SpecCore                  *)

PingDone == pc = "done" /\ call.fn = "ping"
TraceDone == pc = "done" /\ call.fn = "traceroute"

\* C1: a failure to execute the external command (command not found, spawn
\* error, non-zero exit) never leaves ping or traceroute as an exception: ping
\* returns the full-loss outcome, traceroute a hop list.
C1_NoExceptionEscapes ==
    /\ PingDone /\ (call.ev.kind = "oserror" \/ (call.ev.kind = "exit" /\ call.ev.rc # 0))
         => ~ret.raised /\ ret.value.packet_loss = Float(100, 1)
    /\ TraceDone /\ (call.ev.kind = "oserror" \/ (call.ev.kind = "exit" /\ call.ev.rc # 0))
         => ~ret.raised

\* the try block of the platform's ping parser raises on this output
ParseRaises(system, output) ==
    IF system = "windows" THEN ParsePingWindowsTry(output, <<"h">>, 1).raised
    ELSE ParsePingLinuxTry(output, <<"h">>, 1).raised

PingFailurePath ==
    \/ call.ev.kind = "timeout"
    \/ call.ev.kind = "exit" /\ call.ev.rc # 0
    \/ call.ev.kind = "exit" /\ call.ev.rc = 0 /\ ParseRaises(call.system, call.ev.output)

\* C4: when ping ends on a failure path (the 30 s ceiling passed, a non-zero
\* exit, or an exception while parsing the output), the outcome is packet_loss
\* 100.0, packets_received 0, min_ms = avg_ms = max_ms = 0.0, with the host and
\* the count of the call.
C4_FailurePathIsFullLoss ==
    PingDone /\ PingFailurePath =>
        /\ ~ret.raised
        /\ ret.value = [host |-> call.host, packets_transmitted |-> call.count,
                        packets_received |-> 0, packet_loss |-> Float(100, 1),
                        min_ms |-> Float(0, 1), avg_ms |-> Float(0, 1),
                        max_ms |-> Float(0, 1)]

\* C4's case: the command exited 0 with three received of four, and parsing
\* its output raised
C4_Witness ==
    /\ PingDone
    /\ call.ev.kind = "exit" /\ call.ev.rc = 0
    /\ ParseRaises(call.system, call.ev.output)
    /\ call.count = 4
    /\ ret.value.packets_received = 0

\* C5: in every outcome ping returns, for every count it is called with,
\* packets_received <= packets_transmitted, and packets_received = count
\* whenever packet_loss = 0.0.
C5_ReceivedWithinTransmitted ==
    PingDone /\ ~ret.raised =>
        /\ ret.value.packets_received <= ret.value.packets_transmitted
        /\ ret.value.packet_loss = Float(0, 1) => ret.value.packets_received = call.count

\* the percentage of the leftmost "N% packet loss" or "N% perdidos" of the output
LossSegments(output) == {i \in 1..Len(output) : output[i].seg \in {"loss_en", "loss_es"}}
FirstLoss(output) ==
    output[CHOOSE i \in LossSegments(output) : \A j \in LossSegments(output) : i <= j]
RttWellFormed(output) ==
    \A i \in 1..Len(output) :
        output[i].seg = "rtt_linux" => \A k \in 1..3 : ~PyFloat(output[i].g[k]).raised

\* C9: in the Unix-like parser, after exit 0, an output with a percentage N
\* before "packet loss" or before "perdidos" gives packet_loss = N and
\* packets_received = count - floor(count * N / 100), the same in both locales
\* (here for the counts 1.. of the API and outputs whose RTT line is well formed).
C9_LossInBothLocales ==
    /\ PingDone /\ call.system = "linux" /\ call.count >= 1
    /\ call.ev.kind = "exit" /\ call.ev.rc = 0
    /\ LossSegments(call.ev.output) # {}
    /\ RttWellFormed(call.ev.output)
    => LET n == NumVal(FirstLoss(call.ev.output).g[1], 10)
       IN  /\ ~ret.raised
           /\ ret.value.packet_loss = Float(n, 1)
           /\ ret.value.packets_received = call.count - ((call.count * n) \div 100)

WinSegments(output) == {i \in 1..Len(output) : output[i].seg = "rtt_windows"}
FirstWin(output) ==
    output[CHOOSE i \in WinSegments(output) : \A j \in WinSegments(output) : i <= j]

\* C10: in the Windows parser, "Minimum = Ams, Maximum = Bms, Average = Cms"
\* gives min_ms = A, max_ms = B, avg_ms = C; when the pattern does not match,
\* the three RTT fields are 0.0; no exception is raised either way.
C10_WindowsRttRoles ==
    PingDone /\ call.system = "windows" /\ call.ev.kind = "exit" /\ call.ev.rc = 0 =>
        /\ ~ret.raised
        /\ ~ParseRaises("windows", call.ev.output)
        /\ IF WinSegments(call.ev.output) # {}
           THEN LET g == FirstWin(call.ev.output).g
                IN  /\ ret.value.min_ms = Float(NumVal(g[1], 10), 1)
                    /\ ret.value.max_ms = Float(NumVal(g[2], 10), 1)
                    /\ ret.value.avg_ms = Float(NumVal(g[3], 10), 1)
           ELSE /\ ret.value.min_ms = Float(0, 1)
                /\ ret.value.max_ms = Float(0, 1)
                /\ ret.value.avg_ms = Float(0, 1)

\* C10's case: Minimum = 1ms, Maximum = 3ms, Average = 2ms was parsed
C10_Witness ==
    /\ PingDone /\ call.system = "windows"
    /\ call.ev.kind = "exit" /\ call.ev.rc = 0
    /\ WinSegments(call.ev.output) # {}
    /\ ret.value.min_ms = Float(1, 1)
    /\ ret.value.max_ms = Float(3, 1)
    /\ ret.value.avg_ms = Float(2, 1)

\* the dotted quad of C6: exactly four decimal numbers 0..255 separated by dots
IsDottedQuad(host) ==
    LET parts == SplitOn(host, ".")
    IN  /\ Len(parts) = 4
        /\ \A i \in 1..4 :
              /\ parts[i] # <<>>
              /\ \A k \in 1..Len(parts[i]) : IsDigit(parts[i][k])
              /\ Len(parts[i]) <= 3
              /\ NumVal(parts[i], 10) <= 255

\* C6: is_valid_host(host) is true exactly when host is a dotted quad a.b.c.d
\* with octets 0..255 or has the domain shape (one or more of [A-Za-z0-9.-],
\* a dot, two or more letters); for every other string it is false, and it
\* never raises.
C6_ValidHostExactly ==
    pc = "done" /\ call.fn = "is_valid_host" =>
        /\ ~ret.raised
        /\ ret.value <=> (IsDottedQuad(call.host) \/ DomainBody(call.host))

\* the hops C7 describes, line by line
HopLineWellFormed(line) ==
    LET t == split(line)
    IN  /\ Len(t) >= 2
        /\ ~PyInt(t[1]).raised
        /\ t[2] = <<"*">> \/ Len(t) = 2 \/ ~PyFloat(t[3]).raised

HopOfLine(line) ==
    LET t == split(line)
    IN  IF t[2] = <<"*">> THEN [hop |-> PyInt(t[1]).value, host |-> <<"t", "i", "m", "e", "o", "u", "t">>, rtt_ms |-> <<>>]
        ELSE IF Len(t) = 2 THEN [hop |-> PyInt(t[1]).value, host |-> t[2], rtt_ms |-> <<>>]
        ELSE [hop |-> PyInt(t[1]).value, host |-> t[2], rtt_ms |-> <<PyFloat(t[3]).value>>]

DataLines(output) ==
    LET lines == splitlines(output)
    IN  IF lines = <<>> THEN <<>> ELSE Tail(lines)

\* C7: the Unix-like traceroute parser returns, in line order, exactly the hops
\* of the well-formed lines after the header ("3 * " is hop 3, host "timeout",
\* no RTT; "5 192.0.2.1 23.4 ms" is hop 5, host 192.0.2.1, RTT 23.4); a
\* malformed line gives no hop, raises nothing and leaves the other hops alone.
C7_LenientLineByLine ==
    TraceDone /\ call.ev.kind = "exit" =>
        LET good == SelectSeq(DataLines(call.ev.output), HopLineWellFormed)
        IN  /\ ~ret.raised
            /\ ret.value = [i \in 1..Len(good) |-> HopOfLine(good[i])]
            /\ \A i \in 1..Len(good) :
                  /\ good[i] = <<"3", " ", "*", " ">> =>
                        ret.value[i] = [hop |-> 3, host |-> <<"t", "i", "m", "e", "o", "u", "t">>, rtt_ms |-> <<>>]
                  /\ good[i] = <<"5", " ", "1", "9", "2", ".", "0", ".", "2", ".", "1", " ", "2", "3", ".", "4", " ", "m", "s">> =>
                        ret.value[i] = [hop |-> 5, host |-> <<"1", "9", "2", ".", "0", ".", "2", ".", "1">>,
                                        rtt_ms |-> <<Float(234, 10)>>]

\* C7's case: a malformed line between two well-formed ones, both hops kept
C7_Witness ==
    /\ TraceDone /\ call.ev.kind = "exit"
    /\ DataLines(call.ev.output) = <<<<"x", " ", "1", "0", ".", "0", ".", "0", ".", "1", " ", "1", ".", "0", " ", "m", "s">>, <<"5", " ", "1", "9", "2", ".", "0", ".", "2", ".", "1", " ", "2", "3", ".", "4", " ", "m", "s">>>>
    /\ Len(ret.value) = 1
    /\ ret.value[1].hop = 5

-----------------------------------------------------------------------------
(* main.py: the HTTP handlers on the asyncio event loop                     *)
(*                                                                         *)
(* A handler runs on the loop from the request to its first await in one   *)
(* step, and from the await's completion to the response in another.  A    *)
(* probe handed to the executor is a future [host, thread, state, result]: *)
(* queued, then running on a pool thread, then done (with the result) or   *)
(* raised.  The service runs on a Unix-like system.  The 422 that FastAPI  *)
(* answers for a count outside 1..10 comes before the handler, and is left *)
(* out.                                                                    *)

MaxReqs == 2
BulkLimit == 5

ALLOWED_HOSTS ==
    {<<"1", ".", "1", ".", "1", ".", "1">>, <<"8", ".", "8", ".", "8", ".", "8">>, <<"8", ".", "8", ".", "4", ".", "4">>, <<"1", ".", "0", ".", "0", ".", "1">>, <<"g", "o", "o", "g", "l", "e", ".", "c", "o", "m">>,
     <<"c", "l", "o", "u", "d", "f", "l", "a", "r", "e", ".", "c", "o", "m">>, <<"g", "i", "t", "h", "u", "b", ".", "c", "o", "m">>, <<"s", "t", "a", "c", "k", "o", "v", "e", "r", "f", "l", "o", "w", ".", "c", "o", "m">>, <<"p", "y", "t", "h", "o", "n", ".", "o", "r", "g">>,
     <<"f", "a", "s", "t", "a", "p", "i", ".", "t", "i", "a", "n", "g", "o", "l", "o", ".", "c", "o", "m">>}

\* 0 when the host passes, else the status code of the HTTPException
validate_host(host) ==
    IF host \notin ALLOWED_HOSTS THEN 400
    ELSE IF is_valid_host(host).raised THEN 500
    ELSE IF ~is_valid_host(host).value THEN 400
    ELSE 0

\* the slip C8 rules out: the probe called in the handler, on the loop's thread
runOnLoop(host) ==
    [host |-> host, thread |-> "loop", state |-> "queued", result |-> <<>>]

\* loop.run_in_executor(None, probe, host, ...): the call runs on a pool thread
run_in_executor(host) ==
    [host |-> host, thread |-> "executor", state |-> "queued", result |-> <<>>]

\* do_ping and do_traceroute up to the await
SinglePlan(host) ==
    IF validate_host(host) # 0 THEN [code |-> validate_host(host), tasks |-> <<>>]
    ELSE [code |-> 0, tasks |-> <<run_in_executor(host)>>]

\* the slip C2 rules out: each host validated as its task is created, so the
\* hosts before a rejected one are already being probed
BulkPlanEager(hosts) ==
    LET bad == {i \in 1..Len(hosts) : validate_host(hosts[i]) # 0}
        first == CHOOSE i \in bad : \A j \in bad : i <= j
    IN  IF Len(hosts) > BulkLimit THEN [code |-> 400, tasks |-> <<>>]
        ELSE IF bad # {}
             THEN [code |-> validate_host(hosts[first]),
                   tasks |-> [i \in 1..(first - 1) |-> run_in_executor(hosts[i])]]
        ELSE [code |-> 0, tasks |-> [i \in 1..Len(hosts) |-> run_in_executor(hosts[i])]]

\* bulk_ping up to the await: the limit, then every host, then every task
BulkPlan(hosts) ==
    LET bad == {i \in 1..Len(hosts) : validate_host(hosts[i]) # 0}
    IN  IF Len(hosts) > BulkLimit THEN [code |-> 400, tasks |-> <<>>]
        ELSE IF bad # {}
             THEN [code |-> validate_host(hosts[CHOOSE i \in bad : \A j \in bad : i <= j]),
                   tasks |-> <<>>]
        ELSE [code |-> 0, tasks |-> [i \in 1..Len(hosts) |-> run_in_executor(hosts[i])]]

Pending(f) == f.state \in {"queued", "running"}

\* the event loop is blocked while a probe runs on its own thread
LoopState(futs) ==
    IF \E r \in DOMAIN futs : \E i \in 1..Len(futs[r]) :
          futs[r][i].thread = "loop" /\ Pending(futs[r][i])
    THEN "blocked" ELSE "free"

ReqIds == 1..MaxReqs

\* a permitted host and one that is not (those of tests/test_ping.py)
ServerHosts == {<<"8", ".", "8", ".", "8", ".", "8">>, <<"m", "a", "l", "i", "c", "i", "o", "u", "s", ".", "c", "o", "m">>}
ApiCounts == {2}

RECURSIVE Repeat(_, _)
Repeat(x, n) == IF n = 0 THEN <<>> ELSE <<x>> \o Repeat(x, n - 1)

\* two permitted hosts, a rejected host after and before a permitted one, and
\* one host more than the limit
BulkInputs ==
    {<<<<"8", ".", "8", ".", "8", ".", "8">>, <<"1", ".", "1", ".", "1", ".", "1">>>>,
     <<<<"8", ".", "8", ".", "8", ".", "8">>, <<"m", "a", "l", "i", "c", "i", "o", "u", "s", ".", "c", "o", "m">>>>, <<<<"m", "a", "l", "i", "c", "i", "o", "u", "s", ".", "c", "o", "m">>, <<"8", ".", "8", ".", "8", ".", "8">>>>,
     Repeat(<<"8", ".", "8", ".", "8", ".", "8">>, BulkLimit + 1)}

GoodPing == <<Seg("loss_en", <<<<"0">>>>), Seg("rtt_linux", <<<<"1", ".", "5">>, <<"2", ".", "2", "5">>, <<"3">>>>)>>

\* the command cannot be spawned, or it runs and replies
ServerPingEvents ==
    {[kind |-> "oserror", rc |-> 0, output |-> <<>>],
     [kind |-> "exit", rc |-> 0, output |-> GoodPing]}

ServerTraceEvents ==
    {[kind |-> "oserror", rc |-> 0, output |-> <<>>],
     [kind |-> "exit", rc |-> 0,
      output |-> JoinLines(<<TraceHeader, <<" ", "1", " ", " ", "1", "0", ".", "0", ".", "0", ".", "1", " ", " ", "1", ".", "5", " ", "m", "s", " ", " ", "1", ".", "2", " ", "m", "s">>, <<" ", "2", " ", " ", "*", " ", "*", " ", "*">>>>)]}

NoRequest == [kind |-> "none", hosts |-> <<>>, count |-> 0, status |-> "idle",
              code |-> 0, body |-> <<>>]

Init ==
    /\ requests = [r \in ReqIds |-> NoRequest]
    /\ futures = [r \in ReqIds |-> <<>>]
    /\ loop = "free"
    /\ call = [fn |-> "none"]
    /\ ret = Return(FALSE)
    /\ pc = "idle"

\* request ids are given in the order the requests arrive
Arrives(r) ==
    /\ loop = "free"
    /\ requests[r].status = "idle"
    /\ \A q \in ReqIds : q < r => requests[q].status # "idle"

\* what a handler leaves behind at its first await, or at its HTTPException
Handle(r, kind, hosts, count, plan) ==
    /\ requests' = [requests EXCEPT ![r] =
            [kind |-> kind, hosts |-> hosts, count |-> count,
             status |-> IF plan.code = 0 THEN "awaiting" ELSE "responded",
             code |-> plan.code, body |-> <<>>]]
    /\ futures' = [futures EXCEPT ![r] = plan.tasks]
    /\ loop' = LoopState(futures')

\* GET /health (and GET /): no await
HealthRequest(r) ==
    /\ Arrives(r)
    /\ requests' = [requests EXCEPT ![r] =
            [NoRequest EXCEPT !.kind = "health", !.status = "responded", !.code = 200]]
    /\ UNCHANGED <<futures, loop, call, ret, pc>>

\* GET /ping
PingRequest(r) ==
    /\ Arrives(r)
    /\ \E host \in ServerHosts, count \in ApiCounts :
          Handle(r, "ping", <<host>>, count, SinglePlan(host))
    /\ UNCHANGED <<call, ret, pc>>

\* GET /traceroute
TracerouteRequest(r) ==
    /\ Arrives(r)
    /\ \E host \in ServerHosts :
          Handle(r, "traceroute", <<host>>, 30, SinglePlan(host))
    /\ UNCHANGED <<call, ret, pc>>

\* POST /ping/bulk
BulkRequest(r) ==
    /\ Arrives(r)
    /\ \E hosts \in BulkInputs, count \in ApiCounts :
          Handle(r, "bulk", hosts, count, BulkPlan(hosts))
    /\ UNCHANGED <<call, ret, pc>>

\* a pool thread takes a queued call
WorkerStart(r, i) ==
    /\ futures[r][i].state = "queued"
    /\ futures' = [futures EXCEPT ![r][i].state = "running"]
    /\ UNCHANGED <<requests, loop, call, ret, pc>>

\* the call returns or raises on its thread; the future keeps the outcome
WorkerFinish(r, i) ==
    /\ futures[r][i].state = "running"
    /\ \E ev \in IF requests[r].kind = "traceroute" THEN ServerTraceEvents
                 ELSE ServerPingEvents :
          LET f == futures[r][i]
              res == IF requests[r].kind = "traceroute"
                     THEN traceroute(f.host, requests[r].count, ev)
                     ELSE ping("linux", f.host, requests[r].count, ev)
          IN  futures' = [futures EXCEPT ![r][i] =
                    [f EXCEPT !.state = IF res.raised THEN "raised" ELSE "done",
                              !.result = IF res.raised THEN <<>> ELSE <<res.value>>]]
    /\ loop' = LoopState(futures')
    /\ UNCHANGED <<requests, call, ret, pc>>

\* await of one future, or asyncio.gather of several: it raises as soon as one
\* future has raised, and returns the results in argument order once all are done
AwaitResult(futs) ==
    IF \E i \in 1..Len(futs) : futs[i].state = "raised" THEN [ready |-> TRUE, code |-> 500, body |-> <<>>]
    ELSE IF \A i \in 1..Len(futs) : futs[i].state = "done"
         THEN [ready |-> TRUE, code |-> 200, body |-> [i \in 1..Len(futs) |-> futs[i].result[1]]]
    ELSE [ready |-> FALSE, code |-> 0, body |-> <<>>]

\* the handler goes on after its await: the response, or except Exception -> 500
Resume(r) ==
    /\ loop = "free"
    /\ requests[r].status = "awaiting"
    /\ AwaitResult(futures[r]).ready
    /\ requests' = [requests EXCEPT ![r].status = "responded",
                                    ![r].code = AwaitResult(futures[r]).code,
                                    ![r].body = AwaitResult(futures[r]).body]
    /\ UNCHANGED <<futures, loop, call, ret, pc>>

Next ==
    \/ \E r \in ReqIds : HealthRequest(r)
    \/ \E r \in ReqIds : PingRequest(r)
    \/ \E r \in ReqIds : TracerouteRequest(r)
    \/ \E r \in ReqIds : BulkRequest(r)
    \/ \E r \in ReqIds : \E i \in 1..Len(futures[r]) : WorkerStart(r, i)
    \/ \E r \in ReqIds : \E i \in 1..Len(futures[r]) : WorkerFinish(r, i)
    \/ \E r \in ReqIds : Resume(r)

Spec == Init /\ [][Next]_vars

-----------------------------------------------------------------------------
(* Claims about the handlers, checked under Spec                           *)

IsProbeRequest(r) == requests[r].kind \in {"ping", "traceroute", "bulk"}

Acceptable(r) ==
    /\ \A i \in 1..Len(requests[r].hosts) :
          /\ requests[r].hosts[i] \in ALLOWED_HOSTS
          /\ is_valid_host(requests[r].hosts[i]) = Return(TRUE)
    /\ requests[r].kind = "bulk" => Len(requests[r].hosts) <= 5

\* C2: a probe is started for a request only after the whole request has been
\* accepted (every host in ALLOWED_HOSTS and valid, at most 5 hosts in a bulk
\* request); a rejected request, also a bulk request with one rejected host
\* among several, is answered 400 and no probe is started for any of its hosts.
C2_ProbesOnlyAfterAcceptance ==
    \A r \in ReqIds : IsProbeRequest(r) =>
        /\ futures[r] # <<>> => Acceptable(r)
        /\ ~Acceptable(r) =>
              /\ requests[r].status = "responded"
              /\ requests[r].code = 400
              /\ futures[r] = <<>>
        /\ requests[r].code = 400 => futures[r] = <<>>

\* C2's case: a bulk request whose second host is not permitted was answered
\* 400 while another request's probe was running
C2_Witness ==
    \E r \in ReqIds :
        /\ requests[r].kind = "bulk"
        /\ requests[r].hosts = <<<<"8", ".", "8", ".", "8", ".", "8">>, <<"m", "a", "l", "i", "c", "i", "o", "u", "s", ".", "c", "o", "m">>>>
        /\ requests[r].code = 400
        /\ futures[r] = <<>>
        /\ \E q \in ReqIds : \E i \in 1..Len(futures[q]) : futures[q][i].state = "running"

\* C3: for an accepted bulk request with hosts h1..hn, all n probes are
\* dispatched together, the response is produced only after all n have
\* finished, and it holds exactly n outcomes, the i-th the outcome for hi,
\* whatever the order in which the probes complete.
C3_BulkJoinsAllInOrder ==
    \A r \in ReqIds : requests[r].kind = "bulk" /\ requests[r].code # 400 =>
        /\ Len(futures[r]) = Len(requests[r].hosts)
        /\ \A i \in 1..Len(futures[r]) : futures[r][i].host = requests[r].hosts[i]
        /\ requests[r].status = "responded" =>
              /\ \A i \in 1..Len(futures[r]) : ~Pending(futures[r][i])
              /\ Len(requests[r].body) = Len(requests[r].hosts)
              /\ \A i \in 1..Len(requests[r].body) :
                    requests[r].body[i].host = requests[r].hosts[i]

SomeProbePending ==
    \E r \in ReqIds : \E i \in 1..Len(futures[r]) : Pending(futures[r][i])

=============================================================================
